---- MODULE Spec2Model ----
(***************************************************************************)
(* Model of src/src/scraping_wrapper.rs: the generic retry combinator and  *)
(* the ScrapingWrapper methods built on it (get_dom, get_dom_by_text, go,  *)
(* click, fill_textbox, operate).                                          *)
(*                                                                         *)
(* The program is sequential.  A behaviour is a caller issuing public      *)
(* calls one after the other on a constructed wrapper.  Every driver       *)
(* primitive (headless_chrome) and every sleep is one step; the driver's   *)
(* answer (Ok / Err) is chosen by the environment at that step.            *)
(***************************************************************************)
EXTENDS Integers, Sequences, FiniteSets, TLC

VARIABLES
    dom_defs,    \* ScrapingWrapper.dom_defs: name -> selector
    tab,         \* ScrapingWrapper.tab: the tab the wrapper is bound to
    page,        \* what the driver has applied to the tab's page during the
                 \* current public call
    pc,          \* position of the caller / of the public method running
    call,        \* the public call in progress (or the last one finished)
    document,    \* the nodes of the page a get_dom_by_text call queries
    operations,  \* operate's argument
    opIdx,       \* number of operations the for loop of operate has taken
    operation,   \* the loop variable of operate
    frames,      \* the active retry() invocations, innermost last
    element,     \* the Element held by operate between get_dom and click/fill
    result,      \* the value last returned (by retry, then by the method)
    calls,       \* driver primitives and lookups issued, per primitive, by the
                 \* public call (in operate: by the operation) in progress
    oks,         \* those of them that returned Ok, per primitive
    sleeps,      \* retry sleeps of the same scope: how many, and their total
                 \* seconds
    att,         \* what the task invocation in progress has done so far
    underflow,   \* the u8 expression retries - 1 was evaluated at retries = 0
    outside      \* what the constructor call in progress has done outside the
                 \* process: HTTP requests, protocol connections, launches

vars == <<dom_defs, tab, page, pc, call, document, operations, opIdx, operation, frames,
          element,
          result, calls, oks, sleeps, att, underflow, outside>>

----------------------------------------------------------------------------
(* Bounds of the model *)

MaxRetries == 3     \* retries argument of a direct retry() call: 0..MaxRetries
MaxDelay == 2       \* delay argument of a direct retry() call: 0..MaxDelay
MaxOps == 2         \* length of the Vec<Operation> given to operate
MaxNodes == 3       \* nodes of the page a get_dom_by_text call queries
MaxDescs == 2       \* descriptors in a discovery response

(* Program constants *)

RETRIES == 5        \* retry(func, 5, 2) in every wrapper method
DELAY == 2
U8 == 256

----------------------------------------------------------------------------
(* Values *)

Names == {"q", "missing"}
Urls == {"https://example.test/"}
Contents == {"hello"}
None == "None"
Unit == "()"

\* The page before the current call did anything to it.  stale: the page
\* has navigated since the last Element was found on it.
NoEffects == [url |-> None, clicked |-> {}, typed |-> {}, stale |-> FALSE]

\* The registries a wrapper may be constructed with (ScrapeOption.dom_defs,
\* unwrap_or(HashMap::new())).
Registries == { [n \in {} |-> ""], [n \in {"q"} |-> "input[name=q]"] }

Prims == {"task", "lookup", "wait_for_element", "scroll_into_view",
          "navigate_to", "wait_until_navigated", "click", "settle",
          "type_into", "xpath", "wait_for_xpath",
          "self.get_dom", "element.get_inner_text", "evaluate", "close"}

NoCalls == [p \in Prims |-> 0]
NoSleeps == [n |-> 0, secs |-> 0]
\* An Element: the selector or locator that found it and, where the model
\* knows the page's nodes, the position of its node in the document.
Handle(sel, node) == [sel |-> sel, node |-> node]
NoElement == Handle(None, 0)
NoCall == [fn |-> "none", arg |-> None]

\* struct Operation { method, target, content }: a Go with its URL, a Click
\* with a name, a Fill with a name and Some(content) or None.
OperationSet ==
    [method : {"Go"}, target : Urls, content : {None}]
    \cup [method : {"Click"}, target : Names, content : {None}]
    \cup [method : {"Fill"}, target : Names, content : Contents \cup {None}]

\* operations_1 of the example_usage test, on the model's URL, name and
\* text: Go, then Fill, then Click.
ExampleUsage ==
    << [method |-> "Go", target |-> "https://example.test/", content |-> None],
       [method |-> "Fill", target |-> "q", content |-> "hello"],
       [method |-> "Click", target |-> "q", content |-> None] >>

OperationSeqs ==
    UNION { [1..n -> OperationSet] : n \in 0..MaxOps } \cup {ExampleUsage}

NoOperation == [method |-> None, target |-> None, content |-> None]

\* Texts are sequences of characters.  The nodes a queried page is made of:
\* a tag and the node's text as the page holds it (not normalized).
NodeSet ==
    { [tag |-> "h3", text |-> <<"a">>],
      [tag |-> "h3", text |-> <<" ", "a">>],
      [tag |-> "p", text |-> <<"a">>],
      [tag |-> "h3", text |-> <<"a", "'">>] }

Documents == UNION { [1..n -> NodeSet] : n \in 0..MaxNodes }

\* Arguments of get_dom_by_text: search_text, tag_name: Option<&str>,
\* index: Option<i8>.
SearchTexts == { <<"a">>, <<"a", "'">> }
TagNames == {None, "h3"}
Indexes == {[some |-> FALSE, v |-> 0]}
           \cup [some : {TRUE}, v : 0..(MaxNodes + 1)]

\* Option::unwrap_or on such an index.
UnwrapOr(opt, default) == IF opt.some THEN opt.v ELSE default

\* Result<T, Box<dyn Error>> values, and the state before any return.
Ok(v) == [st |-> "ok", v |-> v]
Err(e) == [st |-> "err", v |-> e]
NoResult == [st |-> "none", v |-> None]
Panic(msg) == [st |-> "panic", v |-> msg]

\* An error made by primitive prim during the inv-th invocation of the
\* closure fn.
PrimErr(prim, fn, inv) == [kind |-> "driver", prim |-> prim, fn |-> fn, inv |-> inv]

\* Err("リトライ回数を超えました".into())
RetryExceeded == [kind |-> "retry_exceeded", prim |-> None, fn |-> None, inv |-> 0]

----------------------------------------------------------------------------
(* retry: the pure pieces *)

\* (mutation) the loop test off by one: while attempts <= retries
LoopCondInclusive(attempts, retries) == attempts <= retries

\* while attempts < retries
LoopCond(attempts, retries) == attempts < retries

\* retries - 1 on u8: defined for retries >= 1; at 0 the subtraction
\* overflows (panic in a debug build, 255 in a release build).
Sub1U8(retries) == (retries - 1 + U8) % U8

\* (mutation) the guard compares against retries, not retries - 1
CanRetryToRetries(attempts, retries) == attempts < retries

\* Err(_) if attempts < retries - 1
CanRetry(attempts, retries) == attempts < Sub1U8(retries)

\* (mutation) the result is not inspected: every invocation with attempts
\* left is followed by a sleep and another invocation
ArmIgnoresOk(res, attempts, retries) ==
    IF CanRetry(attempts, retries) THEN "sleep" ELSE "return"

\* The arm the match takes: Ok(result) => return Ok(result); Err(_) if
\* attempts < retries - 1 => sleep and go round; Err(e) => return Err(e).
Arm(res, attempts, retries) ==
    IF res.st = "ok" THEN "return"
    ELSE IF CanRetry(attempts, retries) THEN "sleep" ELSE "return"

\* The `?` of `let result = retry(func, 5, 2)?; Ok(result)`: From<Box<dyn
\* Error>> for Box<dyn Error> is the identity, Ok is rewrapped.
Question(res) == res

----------------------------------------------------------------------------
(* State helpers *)

Top == frames[Len(frames)]
SetTop(f) == [frames EXCEPT ![Len(frames)] = f]
Pop == SubSeq(frames, 1, Len(frames) - 1)

Bump(p) == [calls EXCEPT ![p] = @ + 1]
BumpOk(p, ok) == IF ok THEN [oks EXCEPT ![p] = @ + 1] ELSE oks

\* (mutation) get_dom given a smaller budget than the other methods
PolicyOfShortGetDom(fn) ==
    IF fn = "get_dom" THEN [retries |-> RETRIES - 2, delay |-> DELAY]
    ELSE [retries |-> RETRIES, delay |-> DELAY]

\* retry(func, 5, 2) in go, get_dom, click, get_inner_text, fill_textbox and
\* get_dom_by_text.
PolicyOf(fn) == [retries |-> RETRIES, delay |-> DELAY]

\* (mutation) get_inner_text resolves the element in its own closure
\* instead of calling get_dom
BodyInnerTextFlat(fn) ==
    CASE fn = "task" -> <<"task">>
      [] fn = "get_dom" -> <<"lookup", "wait_for_element", "scroll_into_view">>
      [] fn = "go" -> <<"navigate_to", "wait_until_navigated">>
      [] fn = "click" -> <<"click", "settle", "wait_until_navigated">>
      [] fn = "fill_textbox" -> <<"type_into">>
      [] fn = "get_dom_by_text" ->
             <<"xpath", "wait_for_xpath", "scroll_into_view">>
      [] fn = "get_inner_text" ->
             <<"lookup", "wait_for_element", "scroll_into_view",
               "element.get_inner_text">>

\* (mutation) the click closure returns after the settle sleep
BodyClickNoLoadWait(fn) ==
    CASE fn = "task" -> <<"task">>
      [] fn = "get_dom" -> <<"lookup", "wait_for_element", "scroll_into_view">>
      [] fn = "go" -> <<"navigate_to", "wait_until_navigated">>
      [] fn = "click" -> <<"click", "settle">>
      [] fn = "fill_textbox" -> <<"type_into">>
      [] fn = "get_dom_by_text" ->
             <<"xpath", "wait_for_xpath", "scroll_into_view">>
      [] fn = "get_inner_text" -> <<"self.get_dom", "element.get_inner_text">>

\* The closure each method hands to retry: the primitives it calls, in
\* order.  Each call is followed by `?` (settle and the local steps cannot
\* fail), and the closure returns Ok after the last one.
Body(fn) ==
    CASE fn = "task" -> <<"task">>
      [] fn = "get_dom" -> <<"lookup", "wait_for_element", "scroll_into_view">>
      [] fn = "go" -> <<"navigate_to", "wait_until_navigated">>
      [] fn = "click" -> <<"click", "settle", "wait_until_navigated">>
      [] fn = "fill_textbox" -> <<"type_into">>
      [] fn = "get_dom_by_text" ->
             <<"xpath", "wait_for_xpath", "scroll_into_view">>
      [] fn = "get_inner_text" -> <<"self.get_dom", "element.get_inner_text">>

\* What the closure returns in Ok.
Value(f) ==
    CASE f.fn = "task" -> [inv |-> f.inv]
      [] f.fn \in {"get_dom", "get_dom_by_text"} -> f.el
      [] f.fn = "get_inner_text" -> [inner_text_of |-> f.el]
      [] OTHER -> Unit

\* let mut attempts = 0; the closure has not run yet.
NewFrame(fn, arg, retries, delay) ==
    [fn |-> fn, arg |-> arg, retries |-> retries, delay |-> delay,
     attempts |-> 0, inv |-> 0, pc |-> "loop", step |-> 0, res |-> NoResult,
     el |-> NoElement, xpath |-> <<>>]

Wrapped(fn, arg) == NewFrame(fn, arg, PolicyOf(fn).retries, PolicyOf(fn).delay)

\* The closure of the innermost retry is about to call prim.
Running(prim) ==
    /\ pc \notin {"idle", "panicked", "return"}
    /\ frames # <<>>
    /\ Top.pc = "run"
    /\ Body(Top.fn)[Top.step] = prim

\* The frame after prim returned: Err leaves the closure through `?`, Ok
\* goes on to the next primitive or, after the last, returns Ok.
Advance(f, prim, ok) ==
    IF ~ok THEN [f EXCEPT !.pc = "match",
                          !.res = Err(PrimErr(prim, f.fn, f.inv))]
    ELSE IF f.step >= Len(Body(f.fn))
         THEN [f EXCEPT !.pc = "match", !.res = Ok(Value(f))]
         ELSE [f EXCEPT !.step = @ + 1]

\* Bookkeeping of one primitive call.
Issue(prim, ok) ==
    /\ calls' = Bump(prim)
    /\ oks' = BumpOk(prim, ok)
    /\ att' = Append(att, <<prim, ok>>)

TypeOK ==
    /\ dom_defs \in Registries
    /\ pc \in {"idle", "panicked", "return", "retry", "get_dom",
               "get_dom_by_text", "get_inner_text", "show_dialog_and_wait",
               "close_tab", "new", "operate",
               "operate:go", "operate:click:get_dom", "operate:click:click",
               "operate:fill:get_dom", "operate:fill:fill_textbox"}
    /\ opIdx \in 0..Len(operations)
    /\ Len(frames) <= 2
    /\ underflow \in BOOLEAN
    /\ \A p \in Prims : oks[p] <= calls[p]

Init ==
    /\ dom_defs \in Registries
    /\ tab = "tab0"
    /\ page = NoEffects
    /\ pc = "idle"
    /\ call = NoCall
    /\ document = <<>>
    /\ operations = <<>>
    /\ opIdx = 0
    /\ operation = NoOperation
    /\ frames = <<>>
    /\ element = NoElement
    /\ result = NoResult
    /\ calls = NoCalls
    /\ oks = NoCalls
    /\ sleeps = NoSleeps
    /\ att = <<>>
    /\ underflow = FALSE
    /\ outside = <<>>

\* The caller, holding the wrapper and running no call, starts one.
Begin(fn, arg, at) ==
    /\ pc = "idle"
    /\ call' = [fn |-> fn, arg |-> arg]
    /\ pc' = at
    /\ UNCHANGED <<dom_defs, tab, page, element, result, calls, oks, sleeps,
                   att, underflow, outside>>

\* The caller has the returned value; the call's locals are gone and the
\* bookkeeping of the call is closed.
finish ==
    /\ pc = "return"
    /\ pc' = "idle"
    /\ call' = NoCall
    /\ page' = NoEffects
    /\ document' = <<>>
    /\ operations' = <<>>
    /\ opIdx' = 0
    /\ operation' = NoOperation
    /\ frames' = <<>>
    /\ element' = NoElement
    /\ result' = NoResult
    /\ calls' = NoCalls
    /\ oks' = NoCalls
    /\ sleeps' = NoSleeps
    /\ att' = <<>>
    /\ outside' = <<>>
    /\ UNCHANGED <<dom_defs, tab, underflow>>

----------------------------------------------------------------------------
(* retry(task, retries, delay) *)

\* while attempts < retries { match task() { ...: the loop test, then either
\* the next invocation of the closure or the fall-through Err.
retry_loop ==
    /\ pc \notin {"idle", "panicked", "return"}
    /\ frames # <<>>
    /\ Top.pc = "loop"
    /\ IF LoopCond(Top.attempts, Top.retries)
       THEN /\ frames' = SetTop([Top EXCEPT !.pc = "run",
                                            !.step = 1,
                                            !.inv = @ + 1,
                                            !.el = NoElement,
                                            !.xpath = <<>>])
            /\ att' = <<>>
            /\ UNCHANGED result
       ELSE /\ frames' = Pop
            /\ result' = Err(RetryExceeded)
            /\ UNCHANGED att
    /\ UNCHANGED <<dom_defs, tab, page, pc, call, document, operations, opIdx,
                   operation,
                   element, calls, oks, sleeps, underflow, outside>>

\* The match on the closure's result.  Evaluating the guard of the second
\* arm at retries = 0 overflows the u8: a debug build panics there, a
\* release build wraps to 255.
retry_match ==
    /\ pc \notin {"idle", "panicked", "return"}
    /\ frames # <<>>
    /\ Top.pc = "match"
    /\ underflow' = (underflow \/ (Top.res.st # "ok" /\ Top.retries = 0))
    /\ \E build \in IF Top.res.st # "ok" /\ Top.retries = 0
                     THEN {"debug", "release"} ELSE {"any"} :
         IF build = "debug"
         THEN /\ frames' = <<>>
              /\ pc' = "panicked"
              /\ result' = Panic("attempt to subtract with overflow")
              /\ UNCHANGED sleeps
         ELSE /\ UNCHANGED pc
              /\ IF Arm(Top.res, Top.attempts, Top.retries) = "sleep"
                 THEN \* sleep(Duration::from_secs(delay)); attempts += 1
                      /\ sleeps' = [n |-> sleeps.n + 1,
                                    secs |-> sleeps.secs + Top.delay]
                      /\ frames' = SetTop([Top EXCEPT !.attempts = @ + 1,
                                                      !.pc = "loop",
                                                      !.res = NoResult])
                      /\ UNCHANGED result
                 ELSE \* return Ok(result) / return Err(e)
                      /\ frames' = Pop
                      /\ result' = Top.res
                      /\ UNCHANGED sleeps
    /\ UNCHANGED <<dom_defs, tab, page, call, document, operations, opIdx,
                   operation, element, calls, oks, att, outside>>

\* A caller invoking retry directly with a task of its own: each invocation
\* of the task succeeds or fails as the task pleases.
retry ==
    /\ pc = "idle"
    /\ \E retries \in 0..MaxRetries, delay \in 0..MaxDelay :
        /\ Begin("retry", [retries |-> retries, delay |-> delay], "retry")
        /\ frames' = <<NewFrame("task", None, retries, delay)>>
        /\ UNCHANGED <<document, operations, opIdx, operation>>

task ==
    /\ Running("task")
    /\ \E ok \in BOOLEAN :
        /\ Issue("task", ok)
        /\ frames' = SetTop(Advance(Top, "task", ok))
    /\ UNCHANGED <<dom_defs, tab, page, pc, call, document, operations, opIdx,
                   operation,
                   element, result, sleeps, underflow, outside>>

\* retry has returned to the caller.
retry_return ==
    /\ pc = "retry"
    /\ frames = <<>>
    /\ pc' = "return"
    /\ UNCHANGED <<dom_defs, tab, page, call, document, operations, opIdx,
                   operation,
                   frames, element, result, calls, oks, sleeps, att,
                   underflow, outside>>

----------------------------------------------------------------------------
(* Driver primitives and local steps of the closures *)

\* self.dom_defs.get(target).unwrap(): Some(selector) is unwrapped, None
\* panics.
Lookup(defs, target) ==
    IF target \in DOMAIN defs THEN Ok(defs[target])
    ELSE Panic("unwrap on None")

\* let selector = self.dom_defs.get(target).unwrap();
lookup ==
    /\ Running("lookup")
    /\ LET sel == Lookup(dom_defs, Top.arg) IN
         CASE sel.st = "ok" ->
                /\ Issue("lookup", TRUE)
                /\ frames' = SetTop(Advance([Top EXCEPT !.el = Handle(sel.v, 0)],
                                            "lookup", TRUE))
                /\ UNCHANGED <<pc, result>>
           [] sel.st = "panic" ->
                \* the panic unwinds through retry and every caller
                /\ Issue("lookup", FALSE)
                /\ frames' = <<>>
                /\ pc' = "panicked"
                /\ result' = sel
    /\ UNCHANGED <<dom_defs, tab, page, call, document, operations, opIdx,
                   operation,
                   element, sleeps, underflow, outside>>

\* self.tab.wait_for_element_with_custom_timeout(selector, 1s)?
wait_for_element ==
    /\ Running("wait_for_element")
    /\ \E found \in BOOLEAN :
        /\ Issue("wait_for_element", found)
        /\ frames' = SetTop(Advance(Top, "wait_for_element", found))
        /\ page' = IF found THEN [page EXCEPT !.stale = FALSE] ELSE page
    /\ UNCHANGED <<dom_defs, tab, pc, call, document, operations, opIdx,
                   operation,
                   element, result, sleeps, underflow, outside>>

\* element.scroll_into_view()?; Ok(element)
scroll_into_view ==
    /\ Running("scroll_into_view")
    /\ \E ok \in BOOLEAN :
        /\ Issue("scroll_into_view", ok)
        /\ frames' = SetTop(Advance(Top, "scroll_into_view", ok))
    /\ UNCHANGED <<dom_defs, tab, page, pc, call, document, operations, opIdx,
                   operation,
                   element, result, sleeps, underflow, outside>>

\* (mutation) go opens a new tab and makes it the wrapper's tab
NavigatedTabNew(t) == "tab1"

\* The tab a navigation leaves the wrapper bound to: go navigates self.tab
\* itself (the lines opening a new tab are commented out).
NavigatedTab(t) == t

\* self.tab.navigate_to(url)?
navigate_to ==
    /\ Running("navigate_to")
    /\ \E ok \in BOOLEAN :
        /\ Issue("navigate_to", ok)
        /\ frames' = SetTop(Advance(Top, "navigate_to", ok))
        /\ page' = IF ok THEN [page EXCEPT !.url = Top.arg, !.stale = TRUE]
                         ELSE page
        /\ tab' = NavigatedTab(tab)
    /\ UNCHANGED <<dom_defs, pc, call, document, operations, opIdx,
                   operation,
                   element, result, sleeps, underflow, outside>>

\* .wait_until_navigated()?: Ok once the driver reports the load complete,
\* Err when it gives up waiting.
wait_until_navigated ==
    /\ Running("wait_until_navigated")
    /\ \E ok \in BOOLEAN :
        /\ Issue("wait_until_navigated", ok)
        /\ frames' = SetTop(Advance(Top, "wait_until_navigated", ok))
    /\ UNCHANGED <<dom_defs, tab, page, pc, call, document, operations, opIdx,
                   operation,
                   element, result, sleeps, underflow, outside>>

\* element.click()?: a click that succeeds may make the page navigate.
click ==
    /\ Running("click")
    /\ \E ok \in BOOLEAN, navigates \in BOOLEAN :
        /\ ~ok => ~navigates
        /\ Issue("click", ok)
        /\ frames' = SetTop(Advance(Top, "click", ok))
        /\ page' = IF ok THEN [page EXCEPT !.clicked = @ \cup {Top.arg.sel},
                                           !.stale = @ \/ navigates]
                         ELSE page
    /\ UNCHANGED <<dom_defs, tab, pc, call, document, operations, opIdx,
                   operation,
                   element, result, sleeps, underflow, outside>>

\* sleep(Duration::from_secs(1));
settle ==
    /\ Running("settle")
    /\ Issue("settle", TRUE)
    /\ frames' = SetTop(Advance(Top, "settle", TRUE))
    /\ UNCHANGED <<dom_defs, tab, page, pc, call, document, operations, opIdx,
                   operation,
                   element, result, sleeps, underflow, outside>>

\* element.type_into(&content)?
type_into ==
    /\ Running("type_into")
    /\ \E ok \in BOOLEAN :
        /\ Issue("type_into", ok)
        /\ frames' = SetTop(Advance(Top, "type_into", ok))
        /\ page' = IF ok
                   THEN [page EXCEPT !.typed = @ \cup
                            {[sel |-> Top.arg.el.sel, text |-> Top.arg.content]}]
                   ELSE page
    /\ UNCHANGED <<dom_defs, tab, pc, call, document, operations, opIdx,
                   operation,
                   element, result, sleeps, underflow, outside>>

----------------------------------------------------------------------------
(* get_dom(target) *)

\* pub fn get_dom(&self, target): retry(func, 5, 2)
get_dom ==
    /\ pc = "idle"
    /\ \E target \in Names :
        /\ Begin("get_dom", target, "get_dom")
        /\ frames' = <<Wrapped("get_dom", target)>>
        /\ UNCHANGED <<document, operations, opIdx, operation>>

\* let result = retry(func, 5, 2)?; Ok(result)
get_dom_return ==
    /\ pc = "get_dom"
    /\ frames = <<>>
    /\ pc' = "return"
    /\ result' = Question(result)
    /\ UNCHANGED <<dom_defs, tab, page, call, document, operations, opIdx,
                   operation,
                   frames, element, calls, oks, sleeps, att, underflow, outside>>

----------------------------------------------------------------------------
(* get_dom_by_text(search_text, tag_name, index) *)

Digits == <<"0", "1", "2", "3", "4", "5", "6", "7", "8", "9">>

\* Display of a small non-negative i8, as format!'s {} prints it.
Show(i) == Digits[i + 1]

\* The number a decimal digit denotes.
Read(d) == (CHOOSE i \in 1..Len(Digits) : Digits[i] = d) - 1

\* format!("(//{}[normalize-space(text())='{}'])[{}]", _tag_name,
\*         search_text, _index) with tag_name.unwrap_or("*") and
\* index.unwrap_or(1): the text goes in character by character, unescaped.
XPathOf(search_text, tag_name, index) ==
    <<"(//", IF tag_name = None THEN "*" ELSE tag_name,
      "[normalize-space(text())=", "'">>
    \o search_text
    \o <<"'", "])[", Show(UnwrapOr(index, 1)), "]">>

RECURSIVE Collapse(_)
\* Runs of spaces become one space.
Collapse(t) ==
    IF Len(t) <= 1 THEN t
    ELSE IF t[1] = " " /\ t[2] = " " THEN Collapse(Tail(t))
         ELSE <<t[1]>> \o Collapse(Tail(t))

\* XPath normalize-space: leading and trailing spaces go, inner runs
\* collapse.
NormalizeSpace(t) ==
    LET c == Collapse(t)
        l == IF c # <<>> /\ c[1] = " " THEN Tail(c) ELSE c
    IN IF l # <<>> /\ l[Len(l)] = " " THEN SubSeq(l, 1, Len(l) - 1) ELSE l

\* The positions in doc of the nodes of the given tag ("*": any) whose
\* normalized text is text, in document order.
Matches(doc, tag, text) ==
    { i \in 1..Len(doc) :
        /\ tag = "*" \/ doc[i].tag = tag
        /\ NormalizeSpace(doc[i].text) = text }

\* The k-th smallest member of a set of positions, 0 when there is none.
Nth(S, k) ==
    IF k \in 1..Cardinality(S)
    THEN CHOOSE i \in S : Cardinality({j \in S : j <= i}) = k
    ELSE 0

\* What the browser makes of the locator: the string literal runs from the
\* opening quote to the next quote; anything but '])[', a number and ']'
\* after it is a syntax error (-1).  Otherwise the position of the selected
\* node, 0 when the expression selects nothing.
XPathSelect(xp, doc) ==
    LET quotes == { i \in 5..Len(xp) : xp[i] = "'" }
        q == IF quotes = {} THEN 0
             ELSE CHOOSE i \in quotes : \A j \in quotes : i <= j
    IN IF /\ Len(xp) >= 8
          /\ xp[1] = "(//"
          /\ xp[3] = "[normalize-space(text())="
          /\ xp[4] = "'"
          /\ q = Len(xp) - 3
          /\ xp[q + 1] = "])["
          /\ \E i \in 1..Len(Digits) : Digits[i] = xp[q + 2]
          /\ xp[q + 3] = "]"
       THEN Nth(Matches(doc, xp[2], SubSeq(xp, 5, q - 1)), Read(xp[q + 2]))
       ELSE -1

\* pub fn get_dom_by_text(&self, search_text, tag_name, index), on a tab
\* showing some page.
get_dom_by_text ==
    /\ pc = "idle"
    /\ \E search_text \in SearchTexts, tag_name \in TagNames, index \in Indexes,
       doc \in Documents :
        /\ Begin("get_dom_by_text",
                 [search_text |-> search_text, tag_name |-> tag_name,
                  index |-> index],
                 "get_dom_by_text")
        /\ document' = doc
        /\ frames' = <<Wrapped("get_dom_by_text",
                               [search_text |-> search_text,
                                tag_name |-> tag_name, index |-> index])>>
        /\ UNCHANGED <<operations, opIdx, operation>>

\* let _xpath = &format!(..);
xpath ==
    /\ Running("xpath")
    /\ Issue("xpath", TRUE)
    /\ frames' = SetTop(Advance(
          [Top EXCEPT !.xpath = XPathOf(Top.arg.search_text, Top.arg.tag_name,
                                        Top.arg.index)],
          "xpath", TRUE))
    /\ UNCHANGED <<dom_defs, tab, page, pc, call, document, operations, opIdx,
                   operation, element, result, sleeps, underflow, outside>>

\* self.tab.wait_for_xpath_with_custom_timeout(_xpath, 1s)?: the page does
\* not change during the call, so the wait finds the node exactly when the
\* locator selects one.
wait_for_xpath ==
    /\ Running("wait_for_xpath")
    /\ \E node \in {XPathSelect(Top.xpath, document)} :
        /\ Issue("wait_for_xpath", node > 0)
        /\ frames' = SetTop(Advance([Top EXCEPT !.el = Handle("xpath", node)],
                                    "wait_for_xpath", node > 0))
        /\ page' = IF node > 0 THEN [page EXCEPT !.stale = FALSE] ELSE page
    /\ UNCHANGED <<dom_defs, tab, pc, call, document, operations, opIdx,
                   operation, element, result, sleeps, underflow, outside>>

\* let result = retry(func, 5, 2)?; Ok(result)
get_dom_by_text_return ==
    /\ pc = "get_dom_by_text"
    /\ frames = <<>>
    /\ pc' = "return"
    /\ result' = Question(result)
    /\ UNCHANGED <<dom_defs, tab, page, call, document, operations, opIdx,
                   operation, frames, element, calls, oks, sleeps, att,
                   underflow, outside>>

----------------------------------------------------------------------------
(* get_inner_text(target) *)

\* pub fn get_inner_text(&self, target): retry(func, 5, 2)
get_inner_text ==
    /\ pc = "idle"
    /\ \E target \in Names :
        /\ Begin("get_inner_text", target, "get_inner_text")
        /\ frames' = <<Wrapped("get_inner_text", target)>>
        /\ UNCHANGED <<document, operations, opIdx, operation>>

\* let element = self.get_dom(target)...: the closure calls get_dom, which
\* starts a retry of its own inside the one running the closure.
self_get_dom ==
    /\ Running("self.get_dom")
    /\ calls' = Bump("self.get_dom")
    /\ frames' = Append(SetTop([Top EXCEPT !.pc = "call"]),
                        Wrapped("get_dom", Top.arg))
    /\ UNCHANGED <<dom_defs, tab, page, pc, call, document, operations, opIdx,
                   operation, element, result, oks, sleeps, att, underflow, outside>>

\* ...?; get_dom has returned into the closure: Ok binds element, Err
\* leaves the closure with get_dom's error.
self_get_dom_return ==
    /\ pc \notin {"idle", "panicked", "return"}
    /\ frames # <<>>
    /\ Top.pc = "call"
    /\ IF Question(result).st = "ok"
       THEN /\ frames' = SetTop([Top EXCEPT !.pc = "run", !.step = @ + 1,
                                            !.el = result.v])
            /\ oks' = BumpOk("self.get_dom", TRUE)
       ELSE /\ frames' = SetTop([Top EXCEPT !.pc = "match",
                                            !.res = Question(result)])
            /\ UNCHANGED oks
    /\ UNCHANGED <<dom_defs, tab, page, pc, call, document, operations, opIdx,
                   operation, element, result, calls, sleeps, att, underflow, outside>>

\* let text = element.get_inner_text()?; Ok(text)
element_get_inner_text ==
    /\ Running("element.get_inner_text")
    /\ \E ok \in BOOLEAN :
        /\ Issue("element.get_inner_text", ok)
        /\ frames' = SetTop(Advance(Top, "element.get_inner_text", ok))
    /\ UNCHANGED <<dom_defs, tab, page, pc, call, document, operations, opIdx,
                   operation, element, result, sleeps, underflow, outside>>

\* let result = retry(func, 5, 2)?; Ok(result)
get_inner_text_return ==
    /\ pc = "get_inner_text"
    /\ frames = <<>>
    /\ pc' = "return"
    /\ result' = Question(result)
    /\ UNCHANGED <<dom_defs, tab, page, call, document, operations, opIdx,
                   operation, frames, element, calls, oks, sleeps, att,
                   underflow, outside>>

----------------------------------------------------------------------------
(* show_dialog_and_wait(message) and close_tab() *)

Messages == {None, "checkpoint"}

\* message.unwrap_or("続行するにはOKを押してください。") inside
\* format!("alert('{}');", dialog_message)
DialogScript(message) ==
    <<"alert('", IF message = None THEN "default message" ELSE message, "');">>

\* What a method returns when it calls one driver primitive with `?` and
\* then Ok(()), with no retry around it.
Direct(prim, fn, ok) == IF ok THEN Ok(Unit) ELSE Err(PrimErr(prim, fn, 1))

\* pub fn show_dialog_and_wait(&self, message: Option<&str>)
show_dialog_and_wait ==
    /\ pc = "idle"
    /\ \E message \in Messages :
        /\ Begin("show_dialog_and_wait", DialogScript(message),
                 "show_dialog_and_wait")
        /\ UNCHANGED <<document, operations, opIdx, operation, frames>>

\* self.tab.evaluate(&format!(..), true)?; Ok(())
evaluate ==
    /\ pc = "show_dialog_and_wait"
    /\ \E ok \in BOOLEAN :
        /\ Issue("evaluate", ok)
        /\ result' = Direct("evaluate", "show_dialog_and_wait", ok)
    /\ pc' = "return"
    /\ UNCHANGED <<dom_defs, tab, page, call, document, operations, opIdx,
                   operation, frames, element, sleeps, underflow, outside>>

\* pub fn close_tab(&self)
close_tab ==
    /\ pc = "idle"
    /\ Begin("close_tab", None, "close_tab")
    /\ UNCHANGED <<document, operations, opIdx, operation, frames>>

\* self.tab.close(true)?; Ok(())
close ==
    /\ pc = "close_tab"
    /\ \E ok \in BOOLEAN :
        /\ Issue("close", ok)
        /\ result' = Direct("close", "close_tab", ok)
    /\ pc' = "return"
    /\ UNCHANGED <<dom_defs, tab, page, call, document, operations, opIdx,
                   operation, frames, element, sleeps, underflow, outside>>

----------------------------------------------------------------------------
(* operate(operations) *)

\* pub fn operate(&self, operations: Vec<Operation>)
operate ==
    /\ pc = "idle"
    /\ \E ops \in OperationSeqs :
        /\ Begin("operate", None, "operate")
        /\ operations' = ops
        /\ opIdx' = 0
        /\ operation' = NoOperation
        /\ frames' = <<>>
        /\ UNCHANGED document

\* (mutation) the vector is walked from its end
OperationAtReversed(ops, i) == ops[Len(ops) + 1 - i]

\* for operation in operations: the i-th item the iterator yields.
OperationAt(ops, i) == ops[i]

\* (mutation) absent content is typed as the empty text
FillRunsAlways(content) == TRUE

\* if let Some(content) = operation.content
FillRuns(content) == content # None

\* (mutation) a failed operation is skipped and the loop goes on
OnResultSkip(res) == "next"

\* The `?` after self.go(..), self.get_dom(..), self.click(..) and
\* self.fill_textbox(..): Err returns from operate, Ok goes on.
OnResult(res) == IF res.st = "err" THEN "return" ELSE "next"

\* The loop takes the next operation and matches on its method, or the
\* vector is exhausted and operate returns Ok(()).
operate_for ==
    /\ pc = "operate"
    /\ frames = <<>>
    /\ IF opIdx < Len(operations)
       THEN LET op == OperationAt(operations, opIdx + 1) IN
            /\ opIdx' = opIdx + 1
            /\ operation' = op
            /\ UNCHANGED result
            /\ CASE op.method = "Go" ->
                      /\ pc' = "operate:go"
                      /\ frames' = <<Wrapped("go", op.target)>>
                 [] op.method = "Click" ->
                      /\ pc' = "operate:click:get_dom"
                      /\ frames' = <<Wrapped("get_dom", op.target)>>
                 [] op.method = "Fill" ->
                      IF FillRuns(op.content)
                      THEN /\ pc' = "operate:fill:get_dom"
                           /\ frames' = <<Wrapped("get_dom", op.target)>>
                      ELSE /\ pc' = "operate"
                           /\ UNCHANGED frames
       ELSE /\ pc' = "return"
            /\ result' = Ok(Unit)
            /\ UNCHANGED <<opIdx, operation, frames>>
    /\ UNCHANGED <<dom_defs, tab, page, call, document, operations, element,
                   calls, oks, sleeps, att, underflow, outside>>

\* The operation is complete: back to the head of the loop.
NextOperation ==
    /\ pc' = "operate"
    /\ element' = NoElement
    /\ calls' = NoCalls
    /\ oks' = NoCalls
    /\ sleeps' = NoSleeps
    /\ att' = <<>>
    /\ UNCHANGED <<result, frames>>

\* `?` returns the Err from operate.
ReturnErr ==
    /\ pc' = "return"
    /\ result' = Question(Question(result))
    /\ UNCHANGED <<element, calls, oks, sleeps, att, frames>>

\* self.go(&operation.target)?;
operate_go ==
    /\ pc = "operate:go"
    /\ frames = <<>>
    /\ IF OnResult(result) = "return" THEN ReturnErr ELSE NextOperation
    /\ UNCHANGED <<dom_defs, tab, page, call, document, operations, opIdx,
                   operation,
                   underflow, outside>>

\* let element = self.get_dom(&operation.target)?; self.click(element)
operate_click_get_dom ==
    /\ pc = "operate:click:get_dom"
    /\ frames = <<>>
    /\ IF OnResult(result) = "return" THEN ReturnErr
       ELSE /\ element' = result.v
            /\ pc' = "operate:click:click"
            /\ frames' = <<Wrapped("click", result.v)>>
            /\ UNCHANGED <<result, calls, oks, sleeps, att>>
    /\ UNCHANGED <<dom_defs, tab, page, call, document, operations, opIdx,
                   operation,
                   underflow, outside>>

\* self.click(element)?;
operate_click ==
    /\ pc = "operate:click:click"
    /\ frames = <<>>
    /\ IF OnResult(result) = "return" THEN ReturnErr ELSE NextOperation
    /\ UNCHANGED <<dom_defs, tab, page, call, document, operations, opIdx,
                   operation,
                   underflow, outside>>

\* (mutation) the target is passed where the content belongs
FillArgsTarget(el, op) == [el |-> el, content |-> op.target]

\* The arguments of self.fill_textbox(element, content): the element just
\* resolved and the content of the operation.
FillArgs(el, op) == [el |-> el, content |-> op.content]

\* let element = self.get_dom(&operation.target)?;
\* self.fill_textbox(element, content)
operate_fill_get_dom ==
    /\ pc = "operate:fill:get_dom"
    /\ frames = <<>>
    /\ IF OnResult(result) = "return" THEN ReturnErr
       ELSE /\ element' = result.v
            /\ pc' = "operate:fill:fill_textbox"
            /\ frames' = <<Wrapped("fill_textbox",
                                   FillArgs(result.v, operation))>>
            /\ UNCHANGED <<result, calls, oks, sleeps, att>>
    /\ UNCHANGED <<dom_defs, tab, page, call, document, operations, opIdx,
                   operation,
                   underflow, outside>>

\* self.fill_textbox(element, content)?;
operate_fill ==
    /\ pc = "operate:fill:fill_textbox"
    /\ frames = <<>>
    /\ IF OnResult(result) = "return" THEN ReturnErr ELSE NextOperation
    /\ UNCHANGED <<dom_defs, tab, page, call, document, operations, opIdx,
                   operation,
                   underflow, outside>>

----------------------------------------------------------------------------
(* ScrapingWrapper::new(opt) *)

\* Option<T> values: Some(v), and None with a filler of v's type.
Some(v) == [some |-> TRUE, v |-> v]
NoneOf(filler) == [some |-> FALSE, v |-> filler]

\* struct ScrapeOption { dom_defs, headless, window_size, port_number }
ScrapeOptions ==
    [dom_defs : {NoneOf([n \in {} |-> ""]),
                 Some([n \in {"q"} |-> "input[name=q]"])},
     headless : {NoneOf(FALSE), Some(TRUE), Some(FALSE)},
     window_size : {NoneOf(<<0, 0>>), Some(<<1920, 1080>>)},
     port_number : {NoneOf(0), Some(9222)}]

\* The entries of the array the discovery endpoint answers with: a type and
\* a webSocketDebuggerUrl, which an entry may lack (None).
Descriptors ==
    [type : {"page", "other"},
     webSocketDebuggerUrl : {"ws://a", "ws://b", None}]

\* What the GET of http://localhost:{port}/json can come to: the request
\* fails, the body is not JSON, the JSON is not an array, or an array.
Responses ==
    [st : {"http_error", "not_json", "not_array"}, v : {<<>>}]
    \cup [st : {"array"},
          v : UNION { [1..n -> Descriptors] : n \in 0..MaxDescs }]

NoResponse == [st |-> "none", v |-> <<>>]

\* browser.get_tabs() as the driver reports it.
TabLists == { <<>>, <<"tabA">>, <<"tabA", "tabB">> }

\* An error made by step prim of the constructor.
NewErr(prim) == [kind |-> "construction", prim |-> prim, fn |-> "new", inv |-> 0]

\* One thing done outside the process.
Did(op, arg) == [op |-> op, arg |-> arg]

\* (mutation) the last page entry is taken
FindPageLast(arr) ==
    LET pages == { i \in 1..Len(arr) : arr[i].type = "page" }
    IN IF pages = {} THEN 0 ELSE CHOOSE i \in pages : \A j \in pages : j <= i

RECURSIVE FindFrom(_, _)
\* .iter().find(..) from position i on.
FindFrom(arr, i) ==
    IF i > Len(arr) THEN 0
    ELSE IF arr[i].type = "page" THEN i
    ELSE FindFrom(arr, i + 1)

\* .iter().find(|&info| info["type"] == "page"): the position of the entry
\* found, 0 for None.
FindPage(arr) == FindFrom(arr, 1)

\* let websocket_url = ..: the GET, the parse, as_array, find, and_then
\* as_str, ok_or, each `?` leaving new with its error.
WebSocketUrl(response) ==
    CASE response.st = "http_error" -> Err(NewErr("reqwest::blocking::get"))
      [] response.st = "not_json" -> Err(NewErr("serde_json::from_str"))
      [] response.st = "not_array" -> Err(NewErr("as_array"))
      [] response.st = "array" ->
           LET i == FindPage(response.v) IN
           IF i = 0 \/ response.v[i].webSocketDebuggerUrl = None
           THEN Err(NewErr("find"))
           ELSE Ok(response.v[i].webSocketDebuggerUrl)

\* (mutation) a browser is launched whatever the options say
ModeAlwaysLaunch(opt) == "launch"

\* match opt.port_number { Some(port_number) => .., None => .. }
Mode(opt) == IF opt.port_number.some THEN "attach" ELSE "launch"

\* LaunchOptionsBuilder::default().headless(headless).window_size(window_size)
LaunchOptions(opt) ==
    [headless |-> UnwrapOr(opt.headless, TRUE), window_size |-> opt.window_size]

\* let tab = tabs.lock().unwrap().last().unwrap().clone(); Ok(ScrapingWrapper
\* { browser, tab, dom_defs }): no tab at all panics.
Wrapper(opt, browser, tabs) ==
    IF tabs = <<>> THEN Panic("unwrap on None")
    ELSE Ok([browser |-> browser, tab |-> tabs[Len(tabs)],
             dom_defs |-> UnwrapOr(opt.dom_defs, [n \in {} |-> ""])])

\* The whole constructor, given what the outside answers: the discovery
\* response, whether the connect or launch succeeds (up), and the tabs.
\* Yields what was done outside, in order, and what new returns.
New(opt, response, up, tabs) ==
    IF Mode(opt) = "attach"
    THEN LET get == Did("GET", opt.port_number.v)
             url == WebSocketUrl(response)
         IN IF url.st # "ok" THEN [outside |-> <<get>>, result |-> url]
            ELSE [outside |-> <<get, Did("connect", url.v)>>,
                  result |-> IF up THEN Wrapper(opt, url.v, tabs)
                             ELSE Err(NewErr("Browser::connect"))]
    ELSE [outside |-> <<Did("launch", LaunchOptions(opt))>>,
          result |-> IF up THEN Wrapper(opt, "launched", tabs)
                     ELSE Err(NewErr("Browser::new"))]

\* pub fn new(opt: ScrapeOption): a caller constructs a wrapper.
new ==
    /\ pc = "idle"
    /\ \E opt \in ScrapeOptions, up \in BOOLEAN, tabs \in TabLists :
         \E response \in IF opt.port_number.some THEN Responses
                         ELSE {NoResponse} :
            LET made == New(opt, response, up, tabs) IN
            /\ call' = [fn |-> "new",
                        arg |-> [opt |-> opt, response |-> response]]
            /\ outside' = made.outside
            /\ result' = made.result
            /\ pc' = IF made.result.st = "panic" THEN "panicked" ELSE "return"
    /\ UNCHANGED <<dom_defs, tab, page, document, operations, opIdx,
                   operation, frames, element, calls, oks, sleeps, att,
                   underflow>>

----------------------------------------------------------------------------

Next ==
    \/ new
    \/ finish
    \/ retry
    \/ retry_loop
    \/ task
    \/ retry_match
    \/ retry_return
    \/ lookup
    \/ wait_for_element
    \/ scroll_into_view
    \/ navigate_to
    \/ wait_until_navigated
    \/ click
    \/ settle
    \/ type_into
    \/ get_dom
    \/ get_dom_return
    \/ get_dom_by_text
    \/ xpath
    \/ wait_for_xpath
    \/ get_dom_by_text_return
    \/ get_inner_text
    \/ self_get_dom
    \/ self_get_dom_return
    \/ element_get_inner_text
    \/ get_inner_text_return
    \/ show_dialog_and_wait
    \/ evaluate
    \/ close_tab
    \/ close
    \/ operate
    \/ operate_for
    \/ operate_go
    \/ operate_click_get_dom
    \/ operate_click
    \/ operate_fill_get_dom
    \/ operate_fill

Spec == Init /\ [][Next]_vars

----------------------------------------------------------------------------
(* Claims *)

\* The public call fn has returned to the caller.
Returned(fn) == pc = "return" /\ call.fn = fn

\* C1: a direct retry(task, N, D) with N >= 1 whose task failed on every call
\* has invoked the task exactly N times, slept exactly N-1 times for D
\* seconds each, and returns the error of the N-th invocation.
C1_ExhaustionReturnsLastError ==
    (Returned("retry") /\ call.arg.retries >= 1 /\ oks["task"] = 0) =>
        /\ calls["task"] = call.arg.retries
        /\ sleeps.n = call.arg.retries - 1
        /\ sleeps.secs = (call.arg.retries - 1) * call.arg.delay
        /\ result = Err(PrimErr("task", "task", call.arg.retries))

C1_Witness ==
    /\ Returned("retry")
    /\ call.arg.retries = MaxRetries
    /\ call.arg.delay = MaxDelay
    /\ oks["task"] = 0
    /\ calls["task"] = MaxRetries
    /\ sleeps.n = MaxRetries - 1

\* C2: a direct retry whose task succeeded for the first time on call k
\* returns that call's value after exactly k invocations and k-1 sleeps;
\* nothing is invoked after the success.
C2_SuccessOnKthCall ==
    (Returned("retry") /\ oks["task"] >= 1) =>
        /\ oks["task"] = 1
        /\ calls["task"] \in 1..call.arg.retries
        /\ result = Ok([inv |-> calls["task"]])
        /\ sleeps.n = calls["task"] - 1
        /\ sleeps.secs = (calls["task"] - 1) * call.arg.delay

C2_Witness ==
    /\ Returned("retry")
    /\ result.st = "ok"
    /\ calls["task"] = MaxRetries
    /\ sleeps.n = MaxRetries - 1

\* C3: retry(task, 0, D) invokes nothing, sleeps never and returns an error;
\* retries - 1 is never evaluated at retries = 0; the synthesized error is
\* returned exactly when retries = 0.
C3_ZeroRetries ==
    /\ ~underflow
    /\ (call.fn = "retry" /\ call.arg.retries = 0) =>
            calls = NoCalls /\ sleeps = NoSleeps
    /\ Returned("retry") =>
            /\ result.st \in {"ok", "err"}
            /\ (call.arg.retries = 0) <=>
                   (result.st = "err" /\ result.v.kind = "retry_exceeded")
    /\ (result.st = "err" /\ result.v.kind = "retry_exceeded") =>
            (call.fn = "retry" /\ call.arg.retries = 0)

C3_Witness ==
    /\ Returned("retry")
    /\ call.arg.retries = 0
    /\ result = Err(RetryExceeded)
    /\ calls["task"] = 0

DriverPrims == Prims \ {"task", "lookup", "settle", "xpath", "self.get_dom"}

\* The public call fn is over: it returned, or it panicked.
Over(fn) == pc \in {"return", "panicked"} /\ call.fn = fn

\* operate is running (not yet returned, not panicked).
InOperate == call.fn = "operate" /\ pc \notin {"idle", "panicked", "return"}

\* The closures an operation of the given method runs under retry.
ClosuresOf(method) ==
    CASE method = "Go" -> {"go"}
      [] method = "Click" -> {"get_dom", "click"}
      [] method = "Fill" -> {"get_dom", "fill_textbox"}
      [] OTHER -> {}

\* The effect of a completed operation stands on the page.
Stands(op) ==
    CASE op.method = "Go" -> page.url = op.target
      [] op.method = "Click" -> dom_defs[op.target] \in page.clicked
      [] op.method = "Fill" ->
            op.content # None =>
               [sel |-> dom_defs[op.target], text |-> op.content] \in page.typed

\* Nothing the page holds is taken back.
PageKept ==
    /\ page.url # None => page'.url # None
    /\ page.clicked \subseteq page'.clicked
    /\ page.typed \subseteq page'.typed

\* C4, state part: when operate has returned Err, the error is the one made
\* by the 5th (final) attempt of a closure of the operation the loop had
\* taken last, unmodified, and every earlier operation's effect stands.
C4_ErrState ==
    (Returned("operate") /\ result.st = "err") =>
        /\ opIdx \in 1..Len(operations)
        /\ operation = operations[opIdx]
        /\ \E fn \in ClosuresOf(operation.method) :
              \E i \in 1..Len(Body(fn)) :
                 result = Err(PrimErr(Body(fn)[i], fn, RETRIES))
        /\ \A j \in 1..(opIdx - 1) : Stands(operations[j])

\* C4, step part: once a retried action of operate has come back Err, the
\* next step is operate's return of that same Err, with no further lookup,
\* driver call, sleep or operation; and no step of operate takes anything
\* back from the page.
C4_ErrStep ==
    /\ (InOperate /\ frames = <<>> /\ result.st = "err") =>
          /\ pc' = "return"
          /\ result' = result
          /\ UNCHANGED <<opIdx, operation, page, calls, oks, sleeps, frames>>
    /\ InOperate => PageKept

\* C4: operate stops at the first operation whose retried action is
\* exhausted, returns exactly that operation's final-attempt error, runs
\* nothing of any later operation and undoes nothing.
C4_FirstFailureStops == [](C4_ErrState) /\ [][C4_ErrStep]_vars

\* Navigate done, then the Click exhausted on the load wait of its click
\* closure: the navigation stands.
C4_Witness ==
    /\ Returned("operate")
    /\ Len(operations) = 2
    /\ opIdx = 2
    /\ operations[1].method = "Go"
    /\ operations[2].method = "Click"
    /\ result.st = "err"
    /\ result = Err(PrimErr("wait_until_navigated", "click", RETRIES))
    /\ page.url = operations[1].target

\* The loop is about to take a Fill whose content is None.
AtFillNone ==
    /\ pc = "operate"
    /\ frames = <<>>
    /\ opIdx < Len(operations)
    /\ operations[opIdx + 1].method = "Fill"
    /\ operations[opIdx + 1].content = None

\* C5: a Fill with absent content is a silent no-op: the step that takes it
\* does no lookup, driver call or sleep, makes no error, changes neither the
\* page nor the wrapper, and leaves the loop at its head for the next
\* operation, whether or not the target is registered.
C5_FillNoneIsNoOp ==
    [][AtFillNone =>
          /\ pc' = "operate"
          /\ opIdx' = opIdx + 1
          /\ UNCHANGED <<dom_defs, tab, page, calls, oks, sleeps, result,
                         frames, element, underflow, outside>>]_vars

\* operate returned Ok after a Fill(None) on an unregistered name followed by
\* a navigation that was carried out.
C5_Witness ==
    /\ Returned("operate")
    /\ result.st = "ok"
    /\ Len(operations) = 2
    /\ operations[1] = [method |-> "Fill", target |-> "missing", content |-> None]
    /\ operations[2].method = "Go"
    /\ page.url = operations[2].target

\* C6: resolving a name that is not registered ends in an Err value (the
\* lookup error) returned to the caller, with no wait, sleep or driver call
\* for that name; in operate the error comes back with the earlier
\* navigation still applied.
C6_UnregisteredNameIsErr ==
    /\ (Over("get_dom") /\ call.arg \notin DOMAIN dom_defs) =>
          /\ \A p \in DriverPrims : calls[p] = 0
          /\ sleeps = NoSleeps
          /\ pc = "return"
          /\ result.st = "err"
          /\ result.v.kind = "lookup"
    /\ (/\ Over("operate")
        /\ opIdx >= 1
        /\ operation.method \in {"Click", "Fill"}
        /\ operation.method = "Fill" => operation.content # None
        /\ operation.target \notin DOMAIN dom_defs) =>
          /\ \A p \in DriverPrims : calls[p] = 0
          /\ sleeps = NoSleeps
          /\ pc = "return"
          /\ result.st = "err"
          /\ result.v.kind = "lookup"
          /\ \A j \in 1..(opIdx - 1) : Stands(operations[j])

\* C7, state part: while operate runs, the operation in hand is the
\* opIdx-th of the vector, at most one retry is active and it runs a closure
\* of that operation on that operation's target; on Ok every operation was
\* taken and its effect stands.
C7_InOrderState ==
    /\ (InOperate /\ opIdx >= 1) =>
          /\ operation = operations[opIdx]
          /\ Len(frames) <= 1
          /\ frames # <<>> =>
                /\ Top.fn \in ClosuresOf(operation.method)
                /\ Top.fn \in {"go", "get_dom"} => Top.arg = operation.target
                /\ Top.fn = "click" => Top.arg.sel = dom_defs[operation.target]
                /\ Top.fn = "fill_textbox" =>
                      /\ Top.arg.el.sel = dom_defs[operation.target]
                      /\ Top.arg.content = operation.content
    /\ (InOperate /\ opIdx = 0) => (frames = <<>> /\ calls = NoCalls)
    /\ (Returned("operate") /\ result.st = "ok") =>
          /\ opIdx = Len(operations)
          /\ \A j \in 1..Len(operations) : Stands(operations[j])

\* C7, step part: the loop advances by exactly one operation at a time, and
\* only from its head, when the previous operation has no retry active and
\* all its lookups, driver calls and sleeps are over.
C7_InOrderStep ==
    InOperate =>
        /\ opIdx' \in {opIdx, opIdx + 1}
        /\ opIdx' = opIdx + 1 =>
              /\ pc = "operate"
              /\ frames = <<>>
              /\ calls = NoCalls /\ sleeps = NoSleeps
        /\ (pc # "operate" /\ pc' = "operate") =>
              /\ frames = <<>>
              /\ result.st = "ok"

\* C7: operate processes the operations strictly in sequence order, one at
\* a time, each one's lookups, driver calls, waits and sleeps complete
\* before the next starts, none skipped or reordered.
C7_StrictSequence == [](C7_InOrderState) /\ [][C7_InOrderStep]_vars

\* A Fill and then a Click carried out in the order given.
C7_Witness ==
    /\ Returned("operate")
    /\ result.st = "ok"
    /\ Len(operations) >= 2
    /\ operations[1].method = "Fill" /\ operations[1].content # None
    /\ operations[2].method = "Click"
    /\ page.typed # {} /\ page.clicked # {}

\* The retry of the Click step's click closure has just returned.
ClickStepBack == pc = "operate:click:click" /\ frames = <<>>

\* C8: a Click step succeeds only if, in one and the same attempt, the click
\* primitive succeeded, then the settle delay elapsed, then the load
\* completion was observed; the wait is part of every attempt, and with no
\* load completion ever observed the step does not succeed.
C8_ClickAwaitsLoad ==
    /\ (ClickStepBack /\ result.st = "ok") =>
          /\ att = << <<"click", TRUE>>, <<"settle", TRUE>>,
                      <<"wait_until_navigated", TRUE>> >>
          /\ oks["wait_until_navigated"] = 1
    /\ (ClickStepBack /\ oks["wait_until_navigated"] = 0) => result.st = "err"
    /\ ClickStepBack =>
          /\ calls["settle"] = oks["click"]
          /\ calls["wait_until_navigated"] = oks["click"]

\* A Click step that succeeded on its third attempt.
C8_Witness ==
    /\ ClickStepBack
    /\ result.st = "ok"
    /\ calls["click"] = 3
    /\ oks["click"] = 2
    /\ calls["wait_until_navigated"] = 2

\* C9 as stated: on a registered name, if no element ever matches there are
\* exactly 5 waits, 4 sleeps of 2 s, no scroll and the wait's error; if the
\* element appears at all, the handle is returned, the first wait that found
\* it being the last wait issued (so exactly one wait and one scroll
\* succeeded).
C9_AsStated ==
    (Returned("get_dom") /\ call.arg \in DOMAIN dom_defs) =>
        /\ oks["wait_for_element"] = 0 =>
              /\ calls["wait_for_element"] = RETRIES
              /\ sleeps = [n |-> RETRIES - 1, secs |-> (RETRIES - 1) * DELAY]
              /\ calls["scroll_into_view"] = 0
              /\ result = Err(PrimErr("wait_for_element", "get_dom", RETRIES))
        /\ oks["wait_for_element"] >= 1 =>
              /\ result = Ok(Handle(dom_defs[call.arg], 0))
              /\ oks["wait_for_element"] = 1
              /\ oks["scroll_into_view"] = 1

\* C9 amended: an attempt counts as failed when its wait or its scroll
\* fails.  With no match ever: 5 waits, 4 sleeps of 2 s, no scroll, the 5th
\* wait's error.  If attempt k is the first whose wait and scroll both
\* succeed, the handle is returned after exactly k waits, k-1 sleeps and
\* exactly one successful scroll.  If no attempt has both, the 5th attempt's
\* error is returned after 5 waits and 4 sleeps.
C9_GetDomPolicy ==
    (Returned("get_dom") /\ call.arg \in DOMAIN dom_defs) =>
        /\ calls["scroll_into_view"] = oks["wait_for_element"]
        /\ sleeps.secs = sleeps.n * DELAY
        /\ oks["wait_for_element"] = 0 =>
              /\ calls["wait_for_element"] = RETRIES
              /\ sleeps.n = RETRIES - 1
              /\ calls["scroll_into_view"] = 0
              /\ result = Err(PrimErr("wait_for_element", "get_dom", RETRIES))
        /\ oks["scroll_into_view"] >= 1 =>
              /\ result = Ok(Handle(dom_defs[call.arg], 0))
              /\ oks["scroll_into_view"] = 1
              /\ calls["wait_for_element"] \in 1..RETRIES
              /\ sleeps.n = calls["wait_for_element"] - 1
        /\ oks["scroll_into_view"] = 0 =>
              /\ result.st = "err"
              /\ result.v.inv = RETRIES
              /\ calls["wait_for_element"] = RETRIES
              /\ sleeps.n = RETRIES - 1

\* An element that appeared on attempt 2 and was returned on attempt 3,
\* the scroll of attempt 2 having failed.
C9_Witness ==
    /\ Returned("get_dom")
    /\ call.arg \in DOMAIN dom_defs
    /\ result.st = "ok"
    /\ calls["wait_for_element"] = 3
    /\ oks["wait_for_element"] = 2
    /\ oks["scroll_into_view"] = 1
    /\ sleeps.n = 2

\* The number of nodes of the queried page that the call is about: those
\* of the given tag (any tag when none is given) whose normalized text is
\* the search text.
ByTextMatches ==
    Matches(document,
            IF call.arg.tag_name = None THEN "*" ELSE call.arg.tag_name,
            call.arg.search_text)

ByTextIndex == UnwrapOr(call.arg.index, 1)

\* C10: get_dom_by_text, with tag defaulting to "*" and index to 1, on a
\* page with m matching nodes returns the index-th of them in document order
\* for every index in 1..m (no scroll having failed), and for every index > m
\* fails only after 5 waits and 4 sleeps.
C10_ByTextSelectsIndexth ==
    Returned("get_dom_by_text") =>
        /\ (/\ ByTextIndex \in 1..Cardinality(ByTextMatches)
            /\ oks["scroll_into_view"] = calls["scroll_into_view"]) =>
              /\ result.st = "ok"
              /\ result.v.node = Nth(ByTextMatches, ByTextIndex)
        /\ ByTextIndex > Cardinality(ByTextMatches) =>
              /\ result.st = "err"
              /\ calls["wait_for_xpath"] = RETRIES
              /\ sleeps = [n |-> RETRIES - 1, secs |-> (RETRIES - 1) * DELAY]

\* C11: the name -> selector lookup is done at most once per get_dom call
\* (in operate: per operation), however many attempts the element wait needs.
C11_LookupNeverRetried ==
    (call.fn \in {"get_dom", "operate"}) => calls["lookup"] <= 1

\* A step that issues the driver primitive p.
Issues(p) == calls'[p] = calls[p] + 1

\* C12: every driver primitive a wrapper method issues is issued by a closure
\* running under a retry with budget 5 and delay 2 s (none is issued outside
\* a retry), and every sleep between attempts of a wrapper method is 2 s.
C12_EveryPrimitiveRetried ==
    [][/\ \A p \in DriverPrims :
             Issues(p) =>
                /\ frames # <<>>
                /\ Top.retries = RETRIES
                /\ Top.delay = DELAY
       /\ (call.fn # "retry" /\ sleeps'.n = sleeps.n + 1) =>
             sleeps'.secs = sleeps.secs + DELAY]_vars

\* The primitives invoked on an Element.
ElementPrims == {"scroll_into_view", "click", "type_into",
                 "element.get_inner_text"}

\* C13: no primitive is invoked on an Element after the page has navigated
\* (by a navigate_to or by a click) since that Element was found: every use
\* of a handle, in every attempt, is in the navigation context that
\* resolved it.
C13_NoStaleHandle ==
    [][\A p \in ElementPrims : Issues(p) => ~page.stale]_vars

\* C20: within one Click step the click primitive is not invoked again once
\* it has succeeded in an earlier attempt of the step, also when that
\* attempt's load wait failed.
C20_ClickAtMostOnce ==
    [][Issues("click") => oks["click"] = 0]_vars

\* C19: get_inner_text on a registered name whose element never appears
\* issues the element wait exactly 25 times (5 get_dom calls of 5 attempts
\* each) and sleeps exactly 24 times for 2 s (4 inside each get_dom, 4
\* between them) before it returns the last wait's error.
C19_NestedRetries ==
    (/\ Returned("get_inner_text")
     /\ call.arg \in DOMAIN dom_defs
     /\ oks["wait_for_element"] = 0) =>
        /\ calls["wait_for_element"] = RETRIES * RETRIES
        /\ calls["self.get_dom"] = RETRIES
        /\ calls["lookup"] = RETRIES * RETRIES
        /\ calls["scroll_into_view"] = 0
        /\ calls["element.get_inner_text"] = 0
        /\ sleeps = [n |-> RETRIES * RETRIES - 1,
                     secs |-> (RETRIES * RETRIES - 1) * DELAY]
        /\ result = Err(PrimErr("wait_for_element", "get_dom", RETRIES))

C19_Witness ==
    /\ Returned("get_inner_text")
    /\ call.arg \in DOMAIN dom_defs
    /\ oks["wait_for_element"] = 0
    /\ calls["wait_for_element"] = 25
    /\ sleeps.n = 24
    /\ result.st = "err"

\* C16: no step of any public operation, succeeding or failing, changes the
\* registry or the tab the wrapper is bound to: both stay what construction
\* made them.
C16_WrapperStateFixed ==
    [][dom_defs' = dom_defs /\ tab' = tab]_vars

\* A wrapper with a registered name whose tab has been closed.
C16_Witness ==
    /\ Returned("close_tab")
    /\ result.st = "ok"
    /\ DOMAIN dom_defs # {}
    /\ tab = "tab0"

\* operate runs the example sequence on a wrapper that has its name.
InExample ==
    /\ call.fn = "operate"
    /\ operations = ExampleUsage
    /\ "q" \in DOMAIN dom_defs

\* C17: the sequence Go, Fill("q", "hello"), Click("q") on a wrapper with
\* "q" registered never panics and returns Err only when a step used up its
\* 5 attempts; otherwise it returns Ok with the page navigated, exactly the
\* text "hello" typed into the element of "q" by exactly one successful
\* type_into, and the click attempt that succeeded ended with the load wait
\* observed.  A get_inner_text on a registered name then returns Ok with
\* the element's text unless it used up its attempts.
C17_EndToEnd ==
    /\ InExample =>
          /\ pc # "panicked"
          /\ (pc = "return" /\ result.st = "err") => result.v.inv = RETRIES
          /\ (pc = "return" /\ result.st = "ok") =>
                /\ opIdx = 3
                /\ page.url = "https://example.test/"
                /\ page.typed = {[sel |-> dom_defs["q"], text |-> "hello"]}
                /\ page.clicked = {dom_defs["q"]}
          /\ (pc = "operate:fill:fill_textbox" /\ frames = <<>>
                /\ result.st = "ok") =>
                /\ oks["type_into"] = 1
                /\ page.url = "https://example.test/"
                /\ page.typed = {[sel |-> dom_defs["q"], text |-> "hello"]}
                /\ page.clicked = {}
          /\ (ClickStepBack /\ result.st = "ok") =>
                /\ att[Len(att)] = <<"wait_until_navigated", TRUE>>
                /\ oks["wait_until_navigated"] = 1
    /\ (Returned("get_inner_text") /\ call.arg \in DOMAIN dom_defs) =>
          /\ result.st = "ok" <=> oks["element.get_inner_text"] = 1
          /\ result.st = "ok" =>
                result.v = [inner_text_of |-> Handle(dom_defs[call.arg], 0)]
          /\ result.st = "err" => result.v.inv = RETRIES

\* The example sequence carried out to the end.
C17_Witness ==
    /\ InExample
    /\ pc = "return"
    /\ result.st = "ok"
    /\ opIdx = 3
    /\ page.typed # {}

\* A constructor call is over, with an attach port in its options.
Attached == Over("new") /\ call.arg.opt.port_number.some

\* The positions of the entries of type "page" in the response of the call.
PagesOf(response) ==
    { i \in 1..Len(response.v) : response.v[i].type = "page" }

\* C14: in attach mode, when the response is an array whose first entry of
\* type "page" (in array order) carries an address, exactly one protocol
\* connection is opened, to that address; when the GET fails or no entry has
\* type "page", new returns an Err value and no connection is opened.
C14_AttachFirstPage ==
    Attached =>
        LET response == call.arg.response
            pages == PagesOf(response)
            first == CHOOSE i \in pages : \A j \in pages : i <= j
        IN /\ outside[1] = Did("GET", call.arg.opt.port_number.v)
           /\ (/\ response.st = "array"
               /\ pages # {}
               /\ response.v[first].webSocketDebuggerUrl # None) =>
                 /\ outside =
                       <<outside[1],
                         Did("connect", response.v[first].webSocketDebuggerUrl)>>
                 /\ result.st = "ok" =>
                       result.v.browser = response.v[first].webSocketDebuggerUrl
           /\ (response.st = "http_error"
                \/ (response.st = "array" /\ pages = {})) =>
                 /\ pc = "return"
                 /\ result.st = "err"
                 /\ result.v.kind = "construction"
                 /\ Len(outside) = 1

\* Attached to the second entry, the first one not being a page.
C14_Witness ==
    /\ Attached
    /\ pc = "return"
    /\ result.st = "ok"
    /\ call.arg.response.st = "array"
    /\ Len(call.arg.response.v) = 2
    /\ call.arg.response.v[1].type = "other"
    /\ call.arg.response.v[1].webSocketDebuggerUrl = "ws://a"
    /\ call.arg.response.v[2] =
          [type |-> "page", webSocketDebuggerUrl |-> "ws://b"]
    /\ outside[2] = Did("connect", "ws://b")

\* C15: a construction does exactly one of attach and launch, by the
\* presence of the port alone: with a port, only the GET and at most the
\* connect, whatever headless and window_size are; without one, only the
\* launch, with headless true unless given and the window size as given.
C15_LaunchOrAttach ==
    Over("new") =>
        LET opt == call.arg.opt IN
        /\ opt.port_number.some =>
              /\ Len(outside) \in 1..2
              /\ outside[1].op = "GET"
              /\ outside[1].arg = opt.port_number.v
              /\ Len(outside) = 2 => outside[2].op = "connect"
        /\ ~opt.port_number.some =>
              /\ Len(outside) = 1
              /\ outside[1].op = "launch"
              /\ outside[1].arg =
                    [headless |-> IF opt.headless.some
                                  THEN opt.headless.v ELSE TRUE,
                     window_size |-> opt.window_size]

\* A launch with no headless option given.
C15_Witness ==
    /\ Returned("new")
    /\ ~call.arg.opt.port_number.some
    /\ ~call.arg.opt.headless.some
    /\ result.st = "ok"
    /\ outside[1].op = "launch"
    /\ outside[1].arg.headless = TRUE

\* The public calls that run a retry loop.
LoopCalls == {"retry", "get_dom", "get_dom_by_text", "get_inner_text",
              "operate"}

\* C18: a retry loop once started ends only by returning, on the success of
\* an attempt or the failure of the last one: a direct retry(task, N, D)
\* never invokes the task more than N times, and no call that runs a retry
\* loop, operate on any sequence included, ends otherwise than by returning
\* to its caller.
C18_LoopsReturn ==
    /\ call.fn = "retry" => calls["task"] <= call.arg.retries
    /\ call.fn \in LoopCalls => pc # "panicked"

====
